---- MODULE Spec2Model ----
(***************************************************************************)
(* Capsule-network routing layers of src/capsnet.py: CapsConv and          *)
(* CapsDense, their build/call lifecycle and the dynamic-routing loops.    *)
(*                                                                         *)
(* Tensors are records [shape, data] with data in row-major order, as in   *)
(* TensorFlow.  Numbers are fixed point: the integer X stands for the real *)
(* X / Quantum, and every tensor operation rounds its result to that grid  *)
(* (float32 rounds too, on a finer grid).  Coupling coefficients are kept  *)
(* as exact fractions <<numerator, denominator>>.                          *)
(***************************************************************************)
EXTENDS Integers, Sequences, FiniteSets, TLC

\* ------------------------------------------------------------------ state
VARIABLES
    layer,              \* the class of the layer: "CapsConv" or "CapsDense"
    self,               \* the attributes of the layer
    pc,                 \* "constructed", "built", "routing", "loop", "raised"
    error,              \* the message of the exception raised, "" if none
    inputs,             \* argument of the current (or last) call
    prediction,         \* local of call / dynamic_routing
    w,                  \* CapsConv.dynamic_routing: routing weight
    cc,                 \* CapsConv.dynamic_routing: coupling coefficients
    routing_weights,    \* CapsDense.dynamic_routing: routing weights
    prob_w,             \* CapsDense routing_step: coupling coefficients
    routed_prediction,  \* local of dynamic_routing
    i,                  \* loop counter of dynamic_routing
    result,             \* value returned by the last call, NoTensor if none
    obs                 \* observations of the run (history)

vars == <<layer, self, pc, error, inputs, prediction, w, cc, routing_weights,
          prob_w, routed_prediction, i, result, obs>>

locals == <<prediction, w, cc, routing_weights, prob_w, routed_prediction, i>>

\* ------------------------------------------------------------------ bounds
MaxRoutingIter == 2   \* largest routing_iter a layer is constructed with
MaxCaps        == 2   \* largest number of output capsules (caps / caps_filters)
MaxSeed        == 2   \* number of distinct input tensors of a layer

\* fixed-point grid: the integer X stands for X / Quantum
Quantum == 8

\* placeholder value "..." of an attribute or local that is not yet set
Ellipsis == -1
NoTensor == [shape |-> <<0>>, data |-> <<>>]

\* ------------------------------------------------------- tensor arithmetic
RECURSIVE Prod(_)
Prod(s) == IF s = <<>> THEN 1 ELSE Head(s) * Prod(Tail(s))

RECURSIVE SumSeq(_)
SumSeq(s) == IF s = <<>> THEN 0 ELSE Head(s) + SumSeq(Tail(s))

\* 0-based coordinates of the element at 0-based row-major offset rem, for
\* the first a axes
RECURSIVE UnravelFrom(_, _, _)
UnravelFrom(rem, shape, a) ==
    IF a = 0 THEN <<>>
    ELSE Append(UnravelFrom(rem \div shape[a], shape, a - 1), rem % shape[a])

\* 0-based coordinates of the k-th (1-based) element
Unravel(k, shape) == UnravelFrom(k - 1, shape, Len(shape))

\* row-major offset of coordinates idx, from axis a on
RECURSIVE RavelFrom(_, _, _, _)
RavelFrom(idx, shape, a, acc) ==
    IF a > Len(shape) THEN acc
    ELSE RavelFrom(idx, shape, a + 1, acc * shape[a] + idx[a])

\* 1-based position of the element with 0-based coordinates idx
Ravel(idx, shape) == 1 + RavelFrom(idx, shape, 1, 0)

At(t, idx) == t.data[Ravel(idx, t.shape)]

\* coordinates idx seen from a tensor of this shape under broadcasting
Broadcast(idx, shape) ==
    [a \in 1..Len(shape) |-> IF shape[a] = 1 THEN 0 ELSE idx[a]]

\* the tensor of the given shape whose element at coordinates idx is F(idx)
Tensor(shape, F(_)) ==
    [shape |-> shape,
     data  |-> [k \in 1..Prod(shape) |-> F(Unravel(k, shape))] \o <<>>]

\* a TensorFlow axis number (0-based, negative counts from the end) as a
\* 1-based position
Axis(axis, rank) == 1 + (IF axis < 0 THEN axis + rank ELSE axis)

\* nearest grid point to a / b, b > 0
RoundDiv(a, b) == (2 * a + b) \div (2 * b)

\* integer square root
Isqrt(n) == CHOOSE r \in 0..n : r * r <= n /\ n < (r + 1) * (r + 1)

\* ------------------------------------------------------ TensorFlow operators
\* (variant: weights left over from an earlier call)
tf_zeros_after_first(shape) ==
    Tensor(shape, LAMBDA idx : IF obs.first_input = NoTensor THEN 0 ELSE Quantum)

tf_zeros(shape) == Tensor(shape, LAMBDA idx : 0)

\* tf.reshape: same data, new shape; one dimension may be -1 (inferred)
tf_reshape(t, shape) ==
    LET known == Prod([a \in 1..Len(shape) |->
                          IF shape[a] = -1 THEN 1 ELSE shape[a]])
        full  == [a \in 1..Len(shape) |->
                          IF shape[a] = -1 THEN Prod(t.shape) \div known
                          ELSE shape[a]]
    IN  [shape |-> full, data |-> t.data]

\* tf.expand_dims: a new axis of length 1 at position axis
tf_expand_dims(t, axis) ==
    LET rank == Len(t.shape)
        pos  == 1 + (IF axis < 0 THEN axis + rank + 1 ELSE axis)
    IN  [shape |-> SubSeq(t.shape, 1, pos - 1) \o <<1>>
                      \o SubSeq(t.shape, pos, rank),
         data  |-> t.data]

\* tf.tile: repeat the tensor multiples[a] times along axis a
tf_tile(t, multiples) ==
    LET shape == [a \in 1..Len(t.shape) |-> t.shape[a] * multiples[a]]
    IN  Tensor(shape, LAMBDA idx :
            At(t, [a \in 1..Len(shape) |-> idx[a] % t.shape[a]]))

\* tf.matmul over the last two axes, batched over the others
tf_matmul(a, b, transpose_a) ==
    LET rank  == Len(a.shape)
        m     == IF transpose_a THEN a.shape[rank] ELSE a.shape[rank - 1]
        inner == IF transpose_a THEN a.shape[rank - 1] ELSE a.shape[rank]
        shape == SubSeq(a.shape, 1, rank - 2) \o <<m, b.shape[rank]>>
    IN  Tensor(shape, LAMBDA idx :
            RoundDiv(
                SumSeq([j \in 1..inner |->
                    At(a, IF transpose_a
                          THEN [idx EXCEPT ![rank - 1] = j - 1, ![rank] = idx[rank - 1]]
                          ELSE [idx EXCEPT ![rank] = j - 1])
                    * At(b, [idx EXCEPT ![rank - 1] = j - 1])]),
                Quantum))

\* tf.reduce_sum(..., keepdims=True) over one axis (1-based position)
tf_reduce_sum(t, ax) ==
    LET shape == [t.shape EXCEPT ![ax] = 1]
    IN  Tensor(shape, LAMBDA idx :
            SumSeq([j \in 1..t.shape[ax] |-> At(t, [idx EXCEPT ![ax] = j - 1])]))

\* tf.square, in units of 1 / Quantum^2 (no rounding)
tf_square(t) == Tensor(t.shape, LAMBDA idx : At(t, idx) * At(t, idx))

\* tf.add, elementwise
tf_add(a, b) == Tensor(a.shape, LAMBDA idx : At(a, idx) + At(b, idx))

\* tf.exp on the grid: 2^x, linear between consecutive integers x, scaled by
\* Quantum * 2^ExpBias (a common factor, which a softmax cancels)
ExpBias == 2 * (MaxRoutingIter + 2)
tf_exp(x) == (2 ^ ((x \div Quantum) + ExpBias)) * (Quantum + (x % Quantum))

\* a fraction tensor times a tensor, elementwise with broadcasting (tf.multiply)
tf_multiply(c, t) ==
    LET shape == [a \in 1..Len(t.shape) |->
                    IF c.shape[a] > t.shape[a] THEN c.shape[a] ELSE t.shape[a]]
    IN  Tensor(shape, LAMBDA idx :
            LET f == At(c, Broadcast(idx, c.shape))
            IN  RoundDiv(f[1] * At(t, Broadcast(idx, t.shape)), f[2]))

\* tf.reduce_sum(..., keepdims=True) over several TensorFlow axes
RECURSIVE ReduceSumAxes(_, _)
ReduceSumAxes(t, axis) ==
    IF axis = <<>> THEN t
    ELSE ReduceSumAxes(tf_reduce_sum(t, Axis(Head(axis), Len(t.shape))), Tail(axis))

\* exp(data) / reduce_sum(exp(data), axis, keepdims=True), as exact fractions
SoftmaxOver(data, axis) ==
    LET data_exp     == Tensor(data.shape, LAMBDA idx : tf_exp(At(data, idx)))
        data_exp_sum == ReduceSumAxes(data_exp, axis)
    IN  Tensor(data.shape, LAMBDA idx :
            <<At(data_exp, idx), At(data_exp_sum, Broadcast(idx, data_exp_sum.shape))>>)

\* (variant: normalised over the axis before)
tf_nn_softmax_before(logits, axis) == SoftmaxOver(logits, <<axis - 1>>)

\* tf.nn.softmax(logits, axis)
tf_nn_softmax(logits, axis) == SoftmaxOver(logits, <<axis>>)

\* the smallest positive grid value, standing for keras.backend.epsilon()
Epsilon == 1

\* ------------------------------------------------------------- Activations
\* squash_factor * unit_vector along axis
squash(_data, axis) ==
    LET ax         == Axis(axis, Len(_data.shape))
        square_sum == tf_reduce_sum(tf_square(_data), ax)
    IN  Tensor(_data.shape, LAMBDA idx :
            LET s == At(square_sum, [idx EXCEPT ![ax] = 0])
            IN  RoundDiv(Quantum * s * At(_data, idx),
                         (Quantum * Quantum + s) * Isqrt(s + Epsilon)))

\* --------------------------------------------------------------- CapsConv
\* (variant: normalised over rows, cols and the input capsule filters)
CapsConv_softmax_inputs(data, axis) == SoftmaxOver(data, <<1, 2, 4>>)

\* CapsConv.softmax: softmax over several axes; exactly three are accepted
CapsConv_softmax(data, axis) ==
    IF Len(axis) # 3 THEN NoTensor ELSE SoftmaxOver(data, axis)

\* tf.einsum('pqrst,pqrtsu->pqrsu', cc, prediction)
einsum_route(c, p) ==
    Tensor(<<c.shape[1], c.shape[2], c.shape[3], c.shape[4], p.shape[6]>>,
        LAMBDA idx :
            SumSeq([t \in 1..c.shape[5] |->
                LET f == At(c, <<idx[1], idx[2], idx[3], idx[4], t - 1>>)
                IN  RoundDiv(
                        f[1] * At(p, <<idx[1], idx[2], idx[3], t - 1, idx[4], idx[5]>>),
                        f[2])]))

\* tf.einsum('pqrst,pqrust->pqrsu', routed_prediction, prediction)
einsum_agreement(r, p) ==
    Tensor(<<r.shape[1], r.shape[2], r.shape[3], r.shape[4], p.shape[4]>>,
        LAMBDA idx :
            RoundDiv(
                SumSeq([t \in 1..r.shape[5] |->
                    At(r, <<idx[1], idx[2], idx[3], idx[4], t - 1>>)
                    * At(p, <<idx[1], idx[2], idx[3], idx[5], idx[4], t - 1>>)]),
                Quantum))

\* the Conv3D of the base class with kernel size and strides (1, 1, depth) on
\* a (batch, rows, cols, filters * depth, 1) input: one output vector per
\* input capsule.  The kernel is kept as (depth, channels), its unit axes
\* dropped; the bias is at its initial value, zero.
Conv3D_call(x, kernel, input_caps_dims) ==
    Tensor(<<x.shape[1], x.shape[2], x.shape[3],
             x.shape[4] \div input_caps_dims, kernel.shape[2]>>,
        LAMBDA idx :
            RoundDiv(
                SumSeq([d \in 1..input_caps_dims |->
                    At(x, <<idx[1], idx[2], idx[3],
                            idx[4] * input_caps_dims + d - 1, 0>>)
                    * At(kernel, <<d - 1, idx[5]>>)]),
                Quantum))

\* CapsConv.call up to the routing: the prediction passed to dynamic_routing
CapsConv_prediction(me, x) ==
    LET new_shape == <<-1, x.shape[2], x.shape[3],
                       me.input_caps_filters * me.input_caps_dims, 1>>
        reshaped  == tf_reshape(x, new_shape)
        conv      == Conv3D_call(reshaped, me.kernel, me.kernel_size[3])
    IN  tf_reshape(conv, <<-1, conv.shape[2], conv.shape[3], conv.shape[4],
                           me.caps_filters, me.caps_dims>>)

\* (variant: the routed prediction is recomputed after the weight update)
CapsConv_iteration_rerouted(rw, p) ==
    LET first     == squash(einsum_route(SoftmaxOver(rw, <<1, 2, 3>>), p), -1)
        updated   == tf_add(rw, einsum_agreement(first, p))
        coupling  == SoftmaxOver(updated, <<1, 2, 3>>)
    IN  [cc |-> coupling,
         routed_prediction |-> squash(einsum_route(coupling, p), -1),
         w |-> updated]

\* one pass of the loop body of CapsConv.dynamic_routing from routing weight
\* rw: the coupling coefficients, the routed prediction and the new weight
CapsConv_iteration(rw, p) ==
    LET coupling  == CapsConv_softmax(rw, <<1, 2, 3>>)
        routed    == squash(einsum_route(coupling, p), -1)
        agreement == einsum_agreement(routed, p)
    IN  [cc |-> coupling, routed_prediction |-> routed, w |-> tf_add(rw, agreement)]

\* -------------------------------------------------------------- CapsDense
\* routing_step: softmax over the capsule axis, weight, sum, squash
routing_step(_routing_weights, _prediction) ==
    LET p_w              == tf_nn_softmax(_routing_weights, 2)
        w_pred           == tf_multiply(p_w, _prediction)
        w_prediction_sum == tf_reduce_sum(w_pred, Axis(1, 5))
    IN  [prob_w |-> p_w, routed_prediction |-> squash(w_prediction_sum, -2)]

\* the loop body of CapsDense.dynamic_routing
CapsDense_iteration(rw, routed, p, input_caps) ==
    LET tiled     == tf_tile(routed, <<1, input_caps, 1, 1, 1>>)
        agreement == tf_matmul(p, tiled, TRUE)
        updated   == tf_add(rw, agreement)
        step      == routing_step(updated, p)
    IN  [routing_weights |-> updated, prob_w |-> step.prob_w,
         routed_prediction |-> step.routed_prediction]

\* CapsDense.call up to the routing: the prediction passed to dynamic_routing
CapsDense_prediction(me, x) ==
    LET batch_size == x.shape[1]
        flat       == tf_reshape(x, <<batch_size, me.input_caps, me.input_caps_dims>>)
        col        == tf_expand_dims(flat, -1)
        each       == tf_expand_dims(col, 2)
        tiled_in   == tf_tile(each, <<1, 1, me.caps, 1, 1>>)
        tiled_w    == tf_tile(me.w, <<batch_size, 1, 1, 1, 1>>)
    IN  tf_matmul(tiled_w, tiled_in, FALSE)

\* ------------------------------------------------------- control operators
\* (variant: a lower bound instead of an equality)
tf_assert_at_least(x, y) == x >= y

\* tf.assert_equal(x, y) on values known at once: TRUE when nothing is raised
tf_assert_equal(x, y) == x = y

\* (variant: greater or equal)
tf_assert_greater_equal(x, y) == x >= y

\* tf.assert_greater(x, y) on values known at once: TRUE when nothing is raised
tf_assert_greater(x, y) == x > y

\* (variant: one pass too many)
InRangeInclusive(k, n) == 0 <= k /\ k <= n

\* k \in range(n): the loop that has done k passes makes another one
InRange(k, n) == 0 <= k /\ k < n

\* ------------------------------------------------------------ test inputs
\* the input shapes a layer is built on, (batch, rows, cols, filters, dims)
\* with the batch dimension unknown (0), and shapes of a wrong rank
InputShapes ==
    {<<0, 1, 1, 1, 1>>, <<0, 2, 1, 1, 2>>, <<0, 1, 2, 1, 1>>,
     <<0, 1, 1, 2, 1>>, <<0, 1, 1, 2, 2>>}
BadShapes == {<<0, 1, 1, 1>>, <<0, 1, 1, 1, 1, 1>>}
BuildShapes == InputShapes \cup BadShapes

\* the outcomes of the weight initializer that are told apart
WeightSeeds == {1, 2}

\* the values routing_iter and caps_dims are constructed with
RoutingIters == (0 - 1)..MaxRoutingIter
CapsDims == 1..2

\* the seed-th input of a layer built on in_shape: a batch of one or two items
InputTensor(seed, in_shape) ==
    LET shape == <<1 + (seed % 2)>> \o Tail(in_shape)
    IN  Tensor(shape, LAMBDA idx :
            (((seed + 3) * Ravel(idx, shape)) % (2 * Quantum - 1)) - (Quantum - 1))

\* the seed-th value of a weight tensor of the given shape (the outcome of
\* the initializer is free)
WeightTensor(seed, shape) ==
    Tensor(shape, LAMBDA idx :
        Quantum * ((((seed + 1) * Ravel(idx, shape) + seed) % 3) - 1))

\* ------------------------------------------------------------ construction
\* CapsConv.__init__ with kernel_size = 1 and strides = 1
CapsConv_init(caps_filters, caps_dims, routing_iter) ==
    [caps_filters |-> caps_filters, caps_dims |-> caps_dims,
     routing_iter |-> routing_iter,
     kernel_size |-> <<1, 1, 1>>, strides |-> <<1, 1, 1>>,
     input_caps_filters |-> Ellipsis, input_caps_dims |-> Ellipsis,
     w |-> NoTensor, kernel |-> NoTensor, built |-> FALSE]

\* CapsDense.__init__
CapsDense_init(caps, caps_dims, routing_iter) ==
    [caps |-> caps, caps_dims |-> caps_dims, routing_iter |-> routing_iter,
     input_caps |-> Ellipsis, input_caps_dims |-> Ellipsis,
     w |-> NoTensor, built |-> FALSE]

NoObs ==
    [build_shape |-> <<>>, squash_count |-> 0, softmax_count |-> 0,
     updates |-> 0, used_updates |-> 0, used_weights |-> NoTensor,
     first_input |-> NoTensor, first_output |-> NoTensor, other_seen |-> FALSE]

Init ==
    /\ \E k \in {"CapsConv", "CapsDense"}, n \in 1..MaxCaps,
          d \in CapsDims, r \in RoutingIters :
            /\ layer = k
            /\ self = IF k = "CapsConv" THEN CapsConv_init(n, d, r)
                                        ELSE CapsDense_init(n, d, r)
    /\ pc = "constructed"
    /\ error = ""
    /\ inputs = NoTensor
    /\ prediction = NoTensor
    /\ w = NoTensor
    /\ cc = NoTensor
    /\ routing_weights = NoTensor
    /\ prob_w = NoTensor
    /\ routed_prediction = NoTensor
    /\ i = 0
    /\ result = NoTensor
    /\ obs = NoObs

\* the messages of the two sanity checks
BuildMessage == "Expected Tensor of Rank = 5"
RoutingMessage == "Dynamic Routing should have >= 1 iterations"

\* an exception leaves through the caller: nothing more runs
Raise(message) ==
    /\ pc' = "raised"
    /\ error' = message

\* the observations at the start of a forward call on input x
StartCall(x) ==
    [obs EXCEPT !.squash_count = 0, !.softmax_count = 0,
                !.updates = 0, !.used_updates = 0, !.used_weights = NoTensor,
                !.other_seen = @ \/ (obs.first_input # NoTensor /\ x # obs.first_input)]

\* the observations once a forward call has returned out on input x
EndCall(x, out) ==
    IF obs.first_input = NoTensor
    THEN [obs EXCEPT !.first_input = x, !.first_output = out]
    ELSE obs

\* the locals of a call that has returned are gone
DropLocals ==
    /\ prediction' = NoTensor
    /\ w' = NoTensor
    /\ cc' = NoTensor
    /\ routing_weights' = NoTensor
    /\ prob_w' = NoTensor
    /\ routed_prediction' = NoTensor
    /\ i' = 0

\* ------------------------------------------------------- CapsConv actions
CapsConv_build(input_shape, seed) ==
    /\ layer = "CapsConv"
    /\ pc = "constructed"
    /\ obs' = [obs EXCEPT !.build_shape = input_shape]
    /\ IF ~tf_assert_equal(Len(input_shape), 5)
       THEN /\ Raise(BuildMessage)
            /\ UNCHANGED self
       ELSE /\ self' = [self EXCEPT
                          !.input_caps_filters = input_shape[4],
                          !.input_caps_dims = input_shape[5],
                          !.kernel_size = [@ EXCEPT ![3] = input_shape[5]],
                          !.strides = [@ EXCEPT ![3] = input_shape[5]],
                          !.kernel = WeightTensor(seed,
                              <<input_shape[5], self.caps_filters * self.caps_dims>>),
                          !.built = TRUE]
            /\ pc' = "built"
            /\ UNCHANGED error
    /\ UNCHANGED <<layer, inputs, locals, result>>

CapsConv_call(seed) ==
    /\ layer = "CapsConv"
    /\ pc = "built"
    /\ inputs' = InputTensor(seed, obs.build_shape)
    /\ prediction' = CapsConv_prediction(self, inputs')
    /\ result' = NoTensor
    /\ obs' = StartCall(inputs')
    /\ pc' = "routing"
    /\ UNCHANGED <<layer, self, error, w, cc, routing_weights, prob_w,
                   routed_prediction, i>>

\* CapsConv.dynamic_routing up to the loop
CapsConv_dynamic_routing ==
    /\ layer = "CapsConv"
    /\ pc = "routing"
    /\ IF ~tf_assert_greater(self.routing_iter, 0)
       THEN /\ Raise(RoutingMessage)
            /\ UNCHANGED <<w, routed_prediction, i>>
       ELSE /\ w' = tf_zeros(<<prediction.shape[1], prediction.shape[2],
                               prediction.shape[3], self.caps_filters,
                               self.input_caps_filters>>)
            /\ routed_prediction' = NoTensor
            /\ i' = 0
            /\ pc' = "loop"
            /\ UNCHANGED error
    /\ UNCHANGED <<layer, self, inputs, prediction, cc, routing_weights, prob_w,
                   result, obs>>

\* one iteration of the loop of CapsConv.dynamic_routing
CapsConv_routing_iteration ==
    /\ layer = "CapsConv"
    /\ pc = "loop"
    /\ InRange(i, self.routing_iter)
    /\ LET it == CapsConv_iteration(w, prediction)
       IN  /\ cc' = it.cc
           /\ routed_prediction' = it.routed_prediction
           /\ w' = it.w
    /\ i' = i + 1
    /\ obs' = [obs EXCEPT !.softmax_count = @ + 1, !.squash_count = @ + 1,
                          !.used_updates = obs.updates, !.used_weights = w,
                          !.updates = @ + 1]
    /\ UNCHANGED <<layer, self, pc, error, inputs, prediction, routing_weights,
                   prob_w, result>>

\* the return of CapsConv.dynamic_routing and of CapsConv.call
CapsConv_return ==
    /\ layer = "CapsConv"
    /\ pc = "loop"
    /\ ~InRange(i, self.routing_iter)
    /\ result' = routed_prediction
    /\ obs' = EndCall(inputs, result')
    /\ DropLocals
    /\ pc' = "built"
    /\ UNCHANGED <<layer, self, error, inputs>>

\* ------------------------------------------------------ CapsDense actions
CapsDense_build(input_shape, seed) ==
    /\ layer = "CapsDense"
    /\ pc = "constructed"
    /\ obs' = [obs EXCEPT !.build_shape = input_shape]
    /\ IF ~tf_assert_equal(Len(input_shape), 5)
       THEN /\ Raise(BuildMessage)
            /\ UNCHANGED self
       ELSE /\ LET input_caps == input_shape[2] * input_shape[3] * input_shape[4]
               IN  self' = [self EXCEPT
                          !.input_caps = input_caps,
                          !.input_caps_dims = input_shape[5],
                          !.w = WeightTensor(seed,
                              <<1, input_caps, self.caps, self.caps_dims,
                                input_shape[5]>>),
                          !.built = TRUE]
            /\ pc' = "built"
            /\ UNCHANGED error
    /\ UNCHANGED <<layer, inputs, locals, result>>

\* (variant: the tiled weight is stored back on the layer)
CapsDense_call_storing(seed) ==
    /\ layer = "CapsDense"
    /\ pc = "built"
    /\ inputs' = InputTensor(seed, obs.build_shape)
    /\ prediction' = CapsDense_prediction(self, inputs')
    /\ self' = [self EXCEPT !.w = tf_tile(self.w, <<inputs'.shape[1], 1, 1, 1, 1>>)]
    /\ result' = NoTensor
    /\ obs' = StartCall(inputs')
    /\ pc' = "routing"
    /\ UNCHANGED <<layer, error, w, cc, routing_weights, prob_w,
                   routed_prediction, i>>

CapsDense_call(seed) ==
    /\ layer = "CapsDense"
    /\ pc = "built"
    /\ inputs' = InputTensor(seed, obs.build_shape)
    /\ prediction' = CapsDense_prediction(self, inputs')
    /\ result' = NoTensor
    /\ obs' = StartCall(inputs')
    /\ pc' = "routing"
    /\ UNCHANGED <<layer, self, error, w, cc, routing_weights, prob_w,
                   routed_prediction, i>>

\* CapsDense.dynamic_routing up to the loop: zero weights, first routing step
CapsDense_dynamic_routing ==
    /\ layer = "CapsDense"
    /\ pc = "routing"
    /\ routing_weights' = tf_zeros(<<inputs.shape[1], self.input_caps,
                                     self.caps, 1, 1>>)
    /\ LET step == routing_step(routing_weights', prediction)
       IN  /\ prob_w' = step.prob_w
           /\ routed_prediction' = step.routed_prediction
    /\ i' = 0
    /\ obs' = [obs EXCEPT !.softmax_count = @ + 1, !.squash_count = @ + 1,
                          !.used_updates = obs.updates,
                          !.used_weights = routing_weights']
    /\ pc' = "loop"
    /\ UNCHANGED <<layer, self, error, inputs, prediction, w, cc, result>>

\* one iteration of the loop of CapsDense.dynamic_routing
CapsDense_routing_iteration ==
    /\ layer = "CapsDense"
    /\ pc = "loop"
    /\ InRange(i, self.routing_iter)
    /\ LET it == CapsDense_iteration(routing_weights, routed_prediction,
                                     prediction, self.input_caps)
       IN  /\ routing_weights' = it.routing_weights
           /\ prob_w' = it.prob_w
           /\ routed_prediction' = it.routed_prediction
    /\ i' = i + 1
    /\ obs' = [obs EXCEPT !.softmax_count = @ + 1, !.squash_count = @ + 1,
                          !.updates = @ + 1, !.used_updates = obs.updates + 1,
                          !.used_weights = routing_weights']
    /\ UNCHANGED <<layer, self, pc, error, inputs, prediction, w, cc, result>>

\* (variant: the output reshaped to (-1, caps_dims, caps))
CapsDense_return_swapped ==
    /\ layer = "CapsDense"
    /\ pc = "loop"
    /\ ~InRange(i, self.routing_iter)
    /\ result' = tf_reshape(routed_prediction, <<-1, self.caps_dims, self.caps>>)
    /\ obs' = EndCall(inputs, result')
    /\ DropLocals
    /\ pc' = "built"
    /\ UNCHANGED <<layer, self, error, inputs>>

\* the return of CapsDense.dynamic_routing and the reshape of CapsDense.call
CapsDense_return ==
    /\ layer = "CapsDense"
    /\ pc = "loop"
    /\ ~InRange(i, self.routing_iter)
    /\ result' = tf_reshape(routed_prediction, <<-1, self.caps, self.caps_dims>>)
    /\ obs' = EndCall(inputs, result')
    /\ DropLocals
    /\ pc' = "built"
    /\ UNCHANGED <<layer, self, error, inputs>>

\* ----------------------------------------------------------- specification
Next ==
    \/ \E s \in BuildShapes, seed \in WeightSeeds : CapsConv_build(s, seed)
    \/ \E seed \in 1..MaxSeed : CapsConv_call(seed)
    \/ CapsConv_dynamic_routing
    \/ CapsConv_routing_iteration
    \/ CapsConv_return
    \/ \E s \in BuildShapes, seed \in WeightSeeds : CapsDense_build(s, seed)
    \/ \E seed \in 1..MaxSeed : CapsDense_call(seed)
    \/ CapsDense_dynamic_routing
    \/ CapsDense_routing_iteration
    \/ CapsDense_return

Spec == Init /\ [][Next]_vars

\* ============================================================== properties
RECURSIVE Gcd(_, _)
Gcd(a, b) == IF b = 0 THEN a ELSE Gcd(b, a % b)

\* fractions <<numerator, denominator>> in lowest terms, denominator > 0
Frac(n, d) == LET g == Gcd(n, d) IN <<n \div g, d \div g>>
FracAdd(p, q) == Frac(p[1] * q[2] + q[1] * p[2], p[2] * q[2])

RECURSIVE FracSum(_)
FracSum(s) == IF s = <<>> THEN <<0, 1>> ELSE FracAdd(Head(s), FracSum(Tail(s)))

\* the positions of the elements of t whose coordinates satisfy P
Members(t, P(_)) ==
    SelectSeq([k \in 1..Len(t.data) |-> k], LAMBDA k : P(Unravel(k, t.shape)))

\* the sum of the fractions of t whose coordinates satisfy P
GroupSum(t, P(_)) ==
    LET ks == Members(t, P)
    IN  FracSum([j \in 1..Len(ks) |-> t.data[ks[j]]])

AllZero(t) == \A k \in 1..Len(t.data) : t.data[k] = 0

\* a forward call has returned and no other has begun
Returned == pc = "built" /\ inputs # NoTensor

\* dynamic_routing has left its loop and is about to return
LoopDone == pc = "loop" /\ ~InRange(i, self.routing_iter)

\* C1: for routing_iter = N >= 1 one invocation of CapsDense.dynamic_routing
\* applies squash N + 1 times and one of CapsConv.dynamic_routing N times.
C1_SquashApplications ==
    ((LoopDone \/ Returned) /\ self.routing_iter >= 1) =>
        /\ layer = "CapsDense" => obs.squash_count = self.routing_iter + 1
        /\ layer = "CapsConv" => obs.squash_count = self.routing_iter

C1_Witness ==
    /\ Returned
    /\ layer = "CapsDense"
    /\ self.routing_iter = 1
    /\ obs.squash_count = 2

\* C2: CapsConv.dynamic_routing with routing_iter <= 0 raises before any
\* routing work: no routing weight, no softmax, no squash, nothing returned.
C2_ConvRejectsNonPositiveIter ==
    (layer = "CapsConv" /\ self.routing_iter <= 0) =>
        /\ w = NoTensor
        /\ cc = NoTensor
        /\ routed_prediction = NoTensor
        /\ obs.softmax_count = 0
        /\ obs.squash_count = 0
        /\ result = NoTensor
        /\ (inputs # NoTensor /\ pc # "routing") =>
              (pc = "raised" /\ error = RoutingMessage)

C2_Witness ==
    /\ layer = "CapsConv"
    /\ self.routing_iter <= 0
    /\ prediction # NoTensor
    /\ pc = "raised"

\* C3: the Dense layer with routing_iter <= 0 raises before any routing work:
\* no routing weights, no warm-up routed prediction, no output.
C3_DenseRejectsNonPositiveIter ==
    (layer = "CapsDense" /\ self.routing_iter <= 0) =>
        /\ routing_weights = NoTensor
        /\ routed_prediction = NoTensor
        /\ result = NoTensor
        /\ (inputs # NoTensor /\ pc # "routing") => pc = "raised"

\* C4 as stated: in every iteration of CapsConv.dynamic_routing the coupling
\* coefficients sum to 1, for each (batch element, output capsule filter),
\* across all (row, col, input capsule filter).
C4_SumPerOutputFilter ==
    (layer = "CapsConv" /\ cc # NoTensor) =>
        \A b \in 0..(cc.shape[1] - 1), s \in 0..(cc.shape[4] - 1) :
            GroupSum(cc, LAMBDA idx : idx[1] = b /\ idx[4] = s) = <<1, 1>>

\* C4 amended: in every iteration of CapsConv.dynamic_routing the coupling
\* coefficients, of shape (batch, rows, cols, caps_filters,
\* input_caps_filters), sum to 1, for each (batch element, input capsule
\* filter), across all (row, col, output capsule filter).
C4_SumPerInputFilter ==
    (layer = "CapsConv" /\ cc # NoTensor) =>
        /\ cc.shape = <<inputs.shape[1], inputs.shape[2], inputs.shape[3],
                        self.caps_filters, self.input_caps_filters>>
        /\ \A b \in 0..(cc.shape[1] - 1), t \in 0..(cc.shape[5] - 1) :
            GroupSum(cc, LAMBDA idx : idx[1] = b /\ idx[5] = t) = <<1, 1>>

C4_Witness ==
    /\ layer = "CapsConv"
    /\ cc # NoTensor
    /\ i >= 2
    /\ self.caps_filters = 2
    /\ self.input_caps_filters = 2
    /\ inputs.shape[2] * inputs.shape[3] = 1
    /\ \E j, k \in 1..Len(cc.data) : cc.data[j][1] # cc.data[k][1]

\* C5: in every routing step of CapsDense.dynamic_routing, for every batch
\* element and input capsule, the coupling coefficients are non-negative and
\* sum to 1 across the output capsules; in the warm-up step all are 1 / caps.
C5_DenseCoupling ==
    (layer = "CapsDense" /\ prob_w # NoTensor) =>
        /\ prob_w.shape = <<inputs.shape[1], self.input_caps, self.caps, 1, 1>>
        /\ \A k \in 1..Len(prob_w.data) :
              prob_w.data[k][1] >= 0 /\ prob_w.data[k][2] > 0
        /\ \A b \in 0..(prob_w.shape[1] - 1), n \in 0..(prob_w.shape[2] - 1) :
              GroupSum(prob_w, LAMBDA idx : idx[1] = b /\ idx[2] = n) = <<1, 1>>
        /\ obs.softmax_count = 1 =>
              \A k \in 1..Len(prob_w.data) :
                  prob_w.data[k][1] * self.caps = prob_w.data[k][2]

C5_Witness ==
    /\ layer = "CapsDense"
    /\ prob_w # NoTensor
    /\ obs.softmax_count >= 2
    /\ self.caps >= 2
    /\ self.input_caps >= 2
    /\ inputs.shape[1] >= 2
    /\ \E k \in 1..Len(prob_w.data) :
          prob_w.data[k][1] * self.caps # prob_w.data[k][2]

\* C6: build on an input shape whose rank is not 5 raises and sets none of the
\* build-time state; on a rank-5 shape it completes without error.
C6_BuildRank ==
    /\ (obs.build_shape # <<>> /\ Len(obs.build_shape) # 5) =>
          /\ pc = "raised"
          /\ error = BuildMessage
          /\ self.built = FALSE
          /\ self.input_caps_dims = Ellipsis
          /\ self.w = NoTensor
          /\ layer = "CapsDense" => self.input_caps = Ellipsis
          /\ layer = "CapsConv" =>
                /\ self.input_caps_filters = Ellipsis
                /\ self.kernel = NoTensor
                /\ self.kernel_size = <<1, 1, 1>>
                /\ self.strides = <<1, 1, 1>>
    /\ Len(obs.build_shape) = 5 =>
          /\ self.built = TRUE
          /\ error # BuildMessage
          /\ self.input_caps_dims = obs.build_shape[5]
          /\ layer = "CapsConv" =>
                /\ self.input_caps_filters = obs.build_shape[4]
                /\ self.kernel_size = <<1, 1, obs.build_shape[5]>>
                /\ self.strides = <<1, 1, obs.build_shape[5]>>

C6_Witness ==
    /\ Len(obs.build_shape) = 4
    /\ pc = "raised"
    /\ layer = "CapsDense"

\* C7: every invocation of dynamic routing starts from all-zero routing
\* weights, and a call on the input of the first call returns the output of
\* the first call, whatever calls happened in between.
C7_NoStateAcrossCalls ==
    /\ (pc = "loop" /\ i = 0) =>
          /\ layer = "CapsConv" => AllZero(w)
          /\ layer = "CapsDense" => AllZero(routing_weights)
    /\ (obs.used_updates = 0 /\ obs.used_weights # NoTensor) =>
          AllZero(obs.used_weights)
    /\ (Returned /\ inputs = obs.first_input) => result = obs.first_output

C7_Witness ==
    /\ Returned
    /\ obs.other_seen
    /\ inputs = obs.first_input
    /\ self.routing_iter >= 2
    /\ ~AllZero(result)

\* what CapsDense.build leaves on the layer
C8_BuiltShape ==
    (layer = "CapsDense" /\ self.built) =>
        /\ self.input_caps =
              obs.build_shape[2] * obs.build_shape[3] * obs.build_shape[4]
        /\ self.input_caps_dims = obs.build_shape[5]
        /\ self.w.shape = <<1, self.input_caps, self.caps, self.caps_dims,
                            self.input_caps_dims>>
        /\ Len(self.w.data) = Prod(self.w.shape)

\* C8: after CapsDense.build the weight has shape (1, input_caps, caps,
\* caps_dims, input_caps_dims) with input_caps = rows * cols *
\* input_caps_filters, and no step of a forward call changes the weight or the
\* layer's caps, caps_dims, routing_iter, input_caps, input_caps_dims.
C8_DenseWeightReadOnly ==
    /\ []C8_BuiltShape
    /\ [][(layer = "CapsDense" /\ self.built) => self' = self]_vars

C8_Witness ==
    /\ layer = "CapsDense"
    /\ Returned
    /\ obs.other_seen
    /\ inputs.shape[1] >= 2
    /\ obs.build_shape[4] = 2

\* C9: on a rank-5 input with routing_iter >= 1 CapsDense.call returns a tensor
\* of shape (batch, caps, caps_dims); during routing the prediction has shape
\* (batch, input_caps, caps, caps_dims, 1), the routing weights (batch,
\* input_caps, caps, 1, 1) and the routed prediction (batch, 1, caps,
\* caps_dims, 1).
C9_DenseShapes ==
    (layer = "CapsDense" /\ self.routing_iter >= 1) =>
        /\ pc \in {"routing", "loop"} =>
              /\ prediction.shape = <<inputs.shape[1], self.input_caps, self.caps,
                                      self.caps_dims, 1>>
              /\ Len(prediction.data) = Prod(prediction.shape)
        /\ pc = "loop" =>
              /\ routing_weights.shape =
                    <<inputs.shape[1], self.input_caps, self.caps, 1, 1>>
              /\ Len(routing_weights.data) = Prod(routing_weights.shape)
              /\ routed_prediction.shape =
                    <<inputs.shape[1], 1, self.caps, self.caps_dims, 1>>
              /\ Len(routed_prediction.data) = Prod(routed_prediction.shape)
        /\ Returned =>
              /\ result.shape = <<inputs.shape[1], self.caps, self.caps_dims>>
              /\ Len(result.data) = Prod(result.shape)

C9_Witness ==
    /\ layer = "CapsDense"
    /\ Returned
    /\ self.routing_iter = 2
    /\ result.shape = <<2, 2, 1>>
    /\ self.input_caps = 2
    /\ self.input_caps_dims = 2

\* C10: with routing_iter = N >= 1, CapsConv.dynamic_routing returns the
\* routed prediction of the N-th iteration, computed from weights that hold
\* N - 1 agreement updates (all-zero weights and uniform coupling for N = 1):
\* the last update does not reach the result.  CapsDense.dynamic_routing
\* returns one computed from weights that hold N updates.
C10_UpdatesBehindResult ==
    (LoopDone /\ self.routing_iter >= 1) =>
        /\ layer = "CapsConv" =>
              /\ obs.updates = self.routing_iter
              /\ obs.used_updates = self.routing_iter - 1
              /\ routed_prediction =
                    squash(einsum_route(SoftmaxOver(obs.used_weights, <<1, 2, 3>>),
                                        prediction), -1)
              /\ w = tf_add(obs.used_weights,
                            einsum_agreement(routed_prediction, prediction))
              /\ self.routing_iter = 1 =>
                    /\ AllZero(obs.used_weights)
                    /\ \A k \in 1..Len(cc.data) :
                          cc.data[k][1] * cc.shape[2] * cc.shape[3] * cc.shape[4]
                              = cc.data[k][2]
        /\ layer = "CapsDense" =>
              /\ obs.updates = self.routing_iter
              /\ obs.used_updates = self.routing_iter
              /\ obs.used_weights = routing_weights
              /\ routed_prediction =
                    squash(tf_reduce_sum(
                               tf_multiply(SoftmaxOver(routing_weights, <<2>>),
                                           prediction), 2), -2)

C10_Witness ==
    /\ LoopDone
    /\ layer = "CapsConv"
    /\ self.routing_iter = 2
    /\ ~AllZero(obs.used_weights)
    /\ w # obs.used_weights
    /\ routed_prediction #
          squash(einsum_route(SoftmaxOver(w, <<1, 2, 3>>), prediction), -1)

====
